---- MODULE Spec2Model ----
(***************************************************************************)
(* Model of the review service's real-time notification subsystem:        *)
(* backend/review-service/app/websocket_manager.py (ConnectionManager,    *)
(* NotificationService, periodic_cleanup) and the /ws endpoint of         *)
(* backend/review-service/app/main.py.                                    *)
(*                                                                         *)
(* The service runs on one asyncio event loop: a coroutine runs without   *)
(* interruption up to its next await.  Every action below is one such     *)
(* segment, or one step of a segment while the caller holds the loop      *)
(* (Running); other tasks step only when nobody holds the loop.           *)
(***************************************************************************)
EXTENDS Integers, Sequences, FiniteSets, TLC

\* ------------------------------------------------------------------ bounds
NumWS == 2        \* websocket objects the clients may open
NumUsers == 2     \* distinct user ids the auth service knows
MaxOps == 1       \* calls into the manager that interleave with other tasks
MaxSeqOps == 2    \* calls into the manager made one after the other
MaxTicks == 1     \* the clock advances at most this many times
NumMsgs == 2      \* messages published to the ml-worker's queue
MaxRequeues == 5  \* the broker puts a message back at most this many times

\* --------------------------------------------------------------- constants
websocket_heartbeat_interval == 30
retry_attempts == 3

WS == 1..NumWS
UserIds == 1..NumUsers
Roles == {"admin", "reviewer", "operator"}
Users == [id : UserIds, role : Roles]
NoUser == [id |-> 0, role |-> "none"]
NoMeta == [connected_at |-> -1, last_heartbeat |-> -1]
Tomb == 0

VARIABLES
  manager,     \* the ConnectionManager: its three dicts
  transport,   \* per websocket: ASGI state, close code, frames written
  now,         \* datetime.now(), in seconds
  session,     \* per websocket: position of its websocket_endpoint task
  call,        \* the business code's current call into the manager
  sweep,       \* the periodic_cleanup task
  metric,      \* websocket_connections_total gauge
  lifespan,    \* the application's lifespan: serving, or shutting down
  queue        \* the ml-worker's RabbitMQ queue: its messages

vars == <<manager, transport, now, session, call, sweep, metric, lifespan, queue>>

\* ------------------------------------------------------------ dict helpers
\* A Python dict keeps its keys in an entries array: a deleted key leaves a
\* dummy slot, a new key is appended.  (The array is only compacted when
\* the 6th key is inserted, which NumWS connects cannot reach.)
Range(s) == {s[i] : i \in 1..Len(s)}
DictKeys(d) == Range(d.entries) \ {Tomb}
DictHas(d, k) == k \in DictKeys(d)
DictSize(d) == Cardinality(DictKeys(d))
DictKeyList(d) == SelectSeq(d.entries, LAMBDA e : e # Tomb)
DictInsert(d, k) ==
  IF DictHas(d, k) THEN d ELSE [d EXCEPT !.entries = Append(@, k)]
DictDelete(d, k) ==
  [entries |-> [i \in 1..Len(d.entries) |->
                  IF d.entries[i] = k THEN Tomb ELSE d.entries[i]],
   sets |-> [d.sets EXCEPT ![k] = {}]]

\* ------------------------------------------------------------- the manager
ManagerInit ==
  [active_connections |-> [entries |-> << >>, sets |-> [u \in UserIds |-> {}]],
   connection_users |-> [w \in WS |-> NoUser],
   connection_metadata |-> [order |-> << >>, data |-> [w \in WS |-> NoMeta]]]

\* connect, lines 28-37: the registration after accept() returned.
connect_register(m, ws, user, t) ==
  LET ac == DictInsert(m.active_connections, user.id)
  IN [active_connections |->
        [ac EXCEPT !.sets[user.id] = @ \cup {ws}],
      connection_users |-> [m.connection_users EXCEPT ![ws] = user],
      connection_metadata |->
        [order |-> IF ws \in Range(m.connection_metadata.order)
                   THEN m.connection_metadata.order
                   ELSE Append(m.connection_metadata.order, ws),
         data |-> [m.connection_metadata.data EXCEPT
                     ![ws] = [connected_at |-> t, last_heartbeat |-> t]]]]

\* connect, lines 23-37, up to the welcome frame: accept() is awaited and,
\* unless it raises, the connection is registered.  Nothing looks whether
\* the websocket is registered already.
connect(m, ws, user, t, accepted) ==
  IF accepted
  THEN [m |-> connect_register(m, ws, user, t), result |-> "returned"]
  ELSE [m |-> m, result |-> "raised"]

\* Mutant: the empty set of a user is left in active_connections.
disconnect_no_prune(m, ws) ==
  LET user == m.connection_users[ws]
      ac == m.active_connections
  IN [active_connections |->
        IF user # NoUser /\ DictHas(ac, user.id)
        THEN [ac EXCEPT !.sets[user.id] = @ \ {ws}]
        ELSE ac,
      connection_users |-> [m.connection_users EXCEPT ![ws] = NoUser],
      connection_metadata |->
        [order |-> SelectSeq(m.connection_metadata.order, LAMBDA w : w # ws),
         data |-> [m.connection_metadata.data EXCEPT ![ws] = NoMeta]]]

\* Mutant: the user's entry is deleted even when other connections remain.
disconnect_drop_user(m, ws) ==
  LET user == m.connection_users[ws]
      ac == m.active_connections
  IN [active_connections |->
        IF user # NoUser /\ DictHas(ac, user.id)
        THEN DictDelete(ac, user.id)
        ELSE ac,
      connection_users |-> [m.connection_users EXCEPT ![ws] = NoUser],
      connection_metadata |->
        [order |-> SelectSeq(m.connection_metadata.order, LAMBDA w : w # ws),
         data |-> [m.connection_metadata.data EXCEPT ![ws] = NoMeta]]]

\* Mutant: for a websocket it does not know, disconnect drops the metadata
\* of the connection registered last.
disconnect_evict_unknown(m, ws) ==
  LET user == m.connection_users[ws]
      ac == m.active_connections
      discarded == [ac EXCEPT !.sets[user.id] = @ \ {ws}]
      order == m.connection_metadata.order
      victim == IF user = NoUser /\ order # << >> THEN order[Len(order)] ELSE ws
  IN [active_connections |->
        IF user # NoUser /\ DictHas(ac, user.id)
        THEN IF discarded.sets[user.id] = {}
             THEN DictDelete(discarded, user.id)
             ELSE discarded
        ELSE ac,
      connection_users |-> [m.connection_users EXCEPT ![ws] = NoUser],
      connection_metadata |->
        [order |-> SelectSeq(order, LAMBDA w : w # victim),
         data |-> [m.connection_metadata.data EXCEPT ![victim] = NoMeta]]]

disconnect(m, ws) ==
  LET user == m.connection_users[ws]
      ac == m.active_connections
      discarded == [ac EXCEPT !.sets[user.id] = @ \ {ws}]
  IN [active_connections |->
        IF user # NoUser /\ DictHas(ac, user.id)
        THEN IF discarded.sets[user.id] = {}
             THEN DictDelete(discarded, user.id)
             ELSE discarded
        ELSE ac,
      connection_users |-> [m.connection_users EXCEPT ![ws] = NoUser],
      connection_metadata |->
        [order |-> SelectSeq(m.connection_metadata.order, LAMBDA w : w # ws),
         data |-> [m.connection_metadata.data EXCEPT ![ws] = NoMeta]]]

\* Mutant: the summary has one entry per connection.
get_connected_users_per_connection(m) ==
  LET order == m.connection_metadata.order
  IN [i \in 1..Len(order) |->
        [user_id |-> m.connection_users[order[i]].id, connection_count |-> 1]]

\* get_connected_users: one entry per key whose set is non-empty and whose
\* first connection has a recorded user; here the user id and the count.
get_connected_users(m) ==
  LET ac == m.active_connections
      listed(u) == /\ ac.sets[u] # {}
                   /\ \E w \in ac.sets[u] : m.connection_users[w] # NoUser
      ids == SelectSeq(DictKeyList(ac), listed)
  IN [i \in 1..Len(ids) |->
        [user_id |-> ids[i], connection_count |-> Cardinality(ac.sets[ids[i]])]]

\* get_connected_users, lines 136-148: the entry of a user, built from the
\* connection that next(iter(connections)) yields.  A set of websocket
\* objects iterates in an order the program does not control, so any
\* connection of the user may be that one.
connected_user_entries(m, uid) ==
  {[user_id |-> uid,
    role |-> m.connection_users[first].role,
    connection_count |-> Cardinality(m.active_connections.sets[uid]),
    connected_at |-> m.connection_metadata.data[first].connected_at,
    last_heartbeat |-> m.connection_metadata.data[first].last_heartbeat] :
     first \in {w \in m.active_connections.sets[uid] : m.connection_users[w] # NoUser}}

\* --------------------------------------------------------------- transport
TransportInit == [w \in WS |-> [state |-> "connecting", code |-> 0, frames |-> << >>]]

Frame(type, mid, ok) == [type |-> type, mid |-> mid, ok |-> ok]

\* websocket.send_text: the write is attempted; it can only succeed on an
\* open transport, and may fail on an open one (dead peer, timeout).
CanSucceed(ws) == transport[ws].state = "open"
send_text(tr, ws, type, mid, ok) ==
  [tr EXCEPT ![ws].frames = Append(@, Frame(type, mid, ok))]

\* websocket.close(code): closes an open or connecting transport; code 0
\* stands for a transport that ended without a close code from this service.
close(tr, ws, code) ==
  IF tr[ws].state = "closed" THEN tr
  ELSE [tr EXCEPT ![ws].state = "closed", ![ws].code = code]


\* The peer of an established connection stops reading without closing: the
\* transport's write buffer fills and a send_text on it stays suspended
\* until the transport is closed.
PeerStalls(ws) ==
  /\ session[ws].pc = "recv"
  /\ transport[ws].state = "open"
  /\ transport' = [transport EXCEPT ![ws].state = "stalled"]
  /\ UNCHANGED <<manager, now, session, call, sweep, metric, lifespan, queue>>

\* ------------------------------------------------------------ the scheduler
\* The business call is inside a synchronous segment (between two awaits).
\* It also holds the loop from the moment the call finishes until the code
\* that made it has taken the outcome.
Running == call.pc \in {"role_loop", "user_loop", "bcast_loop", "done"}

\* ---------------------------------------------- websocket_endpoint (main.py)
SessionInit == [w \in WS |-> [pc |-> "idle", user |-> NoUser]]

\* What the client presents and what get_current_user makes of it: a token
\* that verifies to an active user, or one of the ways it does not.
Rejections == {"missing", "invalid", "inactive", "unavailable"}
Creds == [reason : Rejections, user : {NoUser}] \cup [reason : {"ok"}, user : Users]

record_websocket_connection(m) == Len(get_connected_users(m))

\* Websocket objects are numbered in the order the clients arrive, and user
\* ids in the order they first authenticate: names only, no loss of cases.
NextToArrive(ws) == \A w \in WS : w < ws => session[w].pc # "idle"
SeenUsers == {session[w].user.id : w \in WS} \ {0}
NextToAppear(user) == \A u \in UserIds : u < user.id => u \in SeenUsers

\* Lines 518, 525 and 529: the code the endpoint closes a rejected
\* handshake with, by the reason for the rejection.
rejection_code(reason) == 4001

\* Mutant: when the auth service cannot be reached the endpoint lets the
\* connection in, under a default identity.
SessionStart_fail_open(ws, cred, accepted) ==
  /\ ~Running
  /\ session[ws].pc = "idle"
  /\ NextToArrive(ws)
  /\ cred.reason = "ok" => NextToAppear(cred.user)
  /\ cred.reason # "ok" => accepted
  /\ IF cred.reason \notin {"ok", "unavailable"}
     THEN /\ transport' = close(transport, ws, rejection_code(cred.reason))
          /\ session' = [session EXCEPT ![ws].pc = "done"]
          /\ UNCHANGED manager
     ELSE IF ~accepted
     THEN /\ transport' = close(transport, ws, 0)
          /\ session' = [session EXCEPT ![ws] = [pc |-> "done", user |-> cred.user]]
          /\ UNCHANGED manager
     ELSE /\ transport' = [transport EXCEPT ![ws].state = "open"]
          /\ manager' = connect_register(manager, ws,
                            IF cred.reason = "ok" THEN cred.user
                            ELSE [id |-> 1, role |-> "operator"], now)
          /\ session' = [session EXCEPT ![ws] = [pc |-> "welcome", user |-> cred.user]]
  /\ UNCHANGED <<now, call, sweep, metric, lifespan, queue>>

\* Mutant: connect registers the connection before it awaits accept(), and
\* an accept() that raises leaves it registered.
SessionStart_register_first(ws, cred, accepted) ==
  /\ ~Running
  /\ session[ws].pc = "idle"
  /\ NextToArrive(ws)
  /\ cred.reason = "ok" => NextToAppear(cred.user)
  /\ cred.reason # "ok" => accepted
  /\ IF cred.reason # "ok"
     THEN /\ transport' = close(transport, ws, rejection_code(cred.reason))
          /\ session' = [session EXCEPT ![ws].pc = "done"]
          /\ UNCHANGED manager
     ELSE IF ~accepted
     THEN /\ transport' = close(transport, ws, 0)
          /\ manager' = connect_register(manager, ws, cred.user, now)
          /\ session' = [session EXCEPT ![ws] = [pc |-> "done", user |-> cred.user]]
     ELSE /\ transport' = [transport EXCEPT ![ws].state = "open"]
          /\ manager' = connect_register(manager, ws, cred.user, now)
          /\ session' = [session EXCEPT ![ws] = [pc |-> "welcome", user |-> cred.user]]
  /\ UNCHANGED <<now, call, sweep, metric, lifespan, queue>>

\* Lines 517-533 of the endpoint and connect, lines 25-37: the token is
\* checked and verified; a missing token, or a get_current_user that raises,
\* closes with 4001 and returns.  A verified user goes on to manager.connect:
\* accept() is awaited (nothing is shared with other tasks before it
\* returns) and the connection is registered in the segment that follows,
\* up to the await of the welcome frame's send_text.  An accept() that
\* raises leaves connect and the endpoint before its try block.
SessionStart(ws, cred, accepted) ==
  /\ ~Running
  /\ session[ws].pc = "idle"
  /\ NextToArrive(ws)
  /\ cred.reason = "ok" => NextToAppear(cred.user)
  /\ cred.reason # "ok" => accepted
  /\ IF cred.reason # "ok"
     THEN /\ transport' = close(transport, ws, rejection_code(cred.reason))
          /\ session' = [session EXCEPT ![ws].pc = "done"]
          /\ UNCHANGED manager
     ELSE IF ~accepted
     THEN /\ transport' = close(transport, ws, 0)
          /\ session' = [session EXCEPT ![ws] = [pc |-> "done", user |-> cred.user]]
          /\ UNCHANGED manager
     ELSE /\ transport' = [transport EXCEPT ![ws].state = "open"]
          /\ manager' = connect_register(manager, ws, cred.user, now)
          /\ session' = [session EXCEPT ![ws] = [pc |-> "welcome", user |-> cred.user]]
  /\ UNCHANGED <<now, call, sweep, metric, lifespan, queue>>

\* Mutant: the welcome frame goes to every connection of the user.
SessionWelcome_to_user(ws, ok) ==
  /\ ~Running
  /\ session[ws].pc = "welcome"
  /\ ok => CanSucceed(ws)
  /\ transport' =
       [w \in WS |->
          IF w \in manager.active_connections.sets[session[ws].user.id] \cup {ws}
          THEN [transport[w] EXCEPT
                  !.frames = Append(@, Frame("connection_established", 0, ok))]
          ELSE transport[w]]
  /\ manager' = IF ok THEN manager ELSE disconnect(manager, ws)
  /\ metric' = record_websocket_connection(manager')
  /\ session' = [session EXCEPT ![ws].pc = "recv"]
  /\ UNCHANGED <<now, call, sweep, lifespan, queue>>

\* send_personal_message, lines 70-79, for the welcome frame; then lines
\* 537-538 of the endpoint, up to the await of receive_text().
SessionWelcome(ws, ok) ==
  /\ ~Running
  /\ session[ws].pc = "welcome"
  /\ ok => CanSucceed(ws)
  /\ transport' = send_text(transport, ws, "connection_established", 0, ok)
  /\ manager' = IF ok THEN manager ELSE disconnect(manager, ws)
  /\ metric' = record_websocket_connection(manager')
  /\ session' = [session EXCEPT ![ws].pc = "recv"]
  /\ UNCHANGED <<now, call, sweep, lifespan, queue>>

\* The text frames a client sends: an envelope, by its type, or text that
\* is not an envelope.
InboundFrames == {"heartbeat", "other", "malformed"}

\* Line 544, json.loads(data): json is not among the names main.py binds
\* (its imports, lines 1-26), so the call raises NameError whatever the
\* frame holds.
json_loads(data) == "NameError"

\* Mutant: the receive loop is left without the finally block.
SessionRecv_no_teardown(ws, ev) ==
  /\ ~Running
  /\ session[ws].pc = "recv"
  /\ ev \in InboundFrames => transport[ws].state = "open"
  /\ transport' = close(transport, ws, 0)
  /\ session' = [session EXCEPT ![ws].pc = "done"]
  /\ UNCHANGED <<manager, metric, now, call, sweep, lifespan, queue>>

\* Lines 541-562: receive_text() raises WebSocketDisconnect (the peer or the
\* server closed), or returns a text frame.  A frame that parses to a
\* heartbeat goes to handle_heartbeat (lines 152-160) and the loop goes on;
\* WebSocketDisconnect or any other exception breaks the loop, and the
\* finally block unregisters the connection and records the metric.
SessionRecv(ws, ev) ==
  /\ ~Running
  /\ session[ws].pc = "recv"
  /\ ev \in InboundFrames => transport[ws].state = "open"
  /\ IF ev \in InboundFrames /\ json_loads(ev) # "NameError"
     THEN /\ IF json_loads(ev) = "heartbeat"
                /\ manager.connection_metadata.data[ws] # NoMeta
             THEN /\ manager' = [manager EXCEPT
                        !.connection_metadata.data[ws].last_heartbeat = now]
                  /\ transport' = send_text(transport, ws, "heartbeat_ack", 0, TRUE)
             ELSE UNCHANGED <<manager, transport>>
          /\ UNCHANGED <<session, metric>>
     ELSE /\ manager' = disconnect(manager, ws)
          /\ metric' = record_websocket_connection(manager')
          /\ transport' = close(transport, ws, 0)
          /\ session' = [session EXCEPT ![ws].pc = "done"]
  /\ UNCHANGED <<now, call, sweep, lifespan, queue>>

\* ------------------------------------------------- calls into the manager
NoIter == [used |-> 0, pos |-> 1, len |-> 0]
CallInit ==
  [pc |-> "idle", api |-> "none", mid |-> 0, type |-> "none", arg |-> 0,
   role |-> "none", roles |-> << >>, it |-> NoIter, keys |-> << >>,
   uid |-> 0, conns |-> {}, ws |-> 0, result |-> "none",
   start |-> ManagerInit.connection_users]

\* iter(self.active_connections.items())
DictIter(d) == [used |-> DictSize(d), pos |-> 1, len |-> DictSize(d)]

CanCall == /\ ~Running
           /\ call.pc = "idle"

Begin(api, type, arg) ==
  [CallInit EXCEPT !.api = api, !.type = type, !.arg = arg,
                   !.mid = call.mid + 1,
                   !.start = manager.connection_users]

Finish(c, result) ==
  [CallInit EXCEPT !.pc = "done", !.api = c.api, !.type = c.type,
                   !.arg = c.arg, !.role = c.role, !.mid = c.mid,
                   !.start = c.start, !.result = result]

RoleApis == {"send_role_message", "notify_new_detection", "notify_system_alert"}
BcastApis == {"broadcast_message", "notify_review_completed"}

\* Mutant: only one connection of the user's set is sent to.
EnterUser_first_only(c, uid, parent) ==
  IF DictHas(manager.active_connections, uid)
  THEN [c EXCEPT !.pc = "user_loop", !.uid = uid,
                 !.conns = {CHOOSE w \in manager.active_connections.sets[uid] : TRUE}]
  ELSE IF parent = "done" THEN Finish(c, "returned")
       ELSE [c EXCEPT !.pc = parent]

\* Mutant: the user's set is looked up without the membership test, which
\* raises KeyError for a user with no entry.
EnterUser_no_guard(c, uid, parent) ==
  IF DictHas(manager.active_connections, uid)
  THEN [c EXCEPT !.pc = "user_loop", !.uid = uid,
                 !.conns = manager.active_connections.sets[uid]]
  ELSE Finish(c, "raised")

\* Mutant: the delivery to one user iterates over the connections of every
\* user.
EnterUser_everyone(c, uid, parent) ==
  IF DictHas(manager.active_connections, uid)
  THEN [c EXCEPT !.pc = "user_loop", !.uid = uid,
                 !.conns = UNION {manager.active_connections.sets[u] : u \in UserIds}]
  ELSE IF parent = "done" THEN Finish(c, "returned")
       ELSE [c EXCEPT !.pc = parent]

\* send_user_message, lines 83-88: return if the user has no entry, else
\* iterate over a copy of the user's set.  parent is where the caller resumes.
EnterUser(c, uid, parent) ==
  IF DictHas(manager.active_connections, uid)
  THEN [c EXCEPT !.pc = "user_loop", !.uid = uid,
                 !.conns = manager.active_connections.sets[uid]]
  ELSE IF parent = "done" THEN Finish(c, "returned")
       ELSE [c EXCEPT !.pc = parent]

\* The manager is only ever handed websockets that connect has accepted
\* and registered (they may have been unregistered since).
WasRegistered(ws) ==
  \/ session[ws].pc \in {"welcome", "recv"}
  \/ session[ws].pc = "done" /\ transport[ws].frames # << >>

CallPersonal(ws, type) ==
  /\ CanCall
  /\ WasRegistered(ws)
  /\ call' = [Begin("send_personal_message", type, ws) EXCEPT
                !.pc = "write", !.ws = ws]
  /\ UNCHANGED <<manager, transport, now, session, sweep, metric, lifespan, queue>>

CallUser(uid) ==
  /\ CanCall
  /\ call' = EnterUser(Begin("send_user_message", "notification", uid), uid, "done")
  /\ UNCHANGED <<manager, transport, now, session, sweep, metric, lifespan, queue>>

CallRole(role) ==
  /\ CanCall
  /\ call' = [Begin("send_role_message", "notification", 0) EXCEPT
                !.pc = "role_loop", !.role = role,
                !.it = DictIter(manager.active_connections)]
  /\ UNCHANGED <<manager, transport, now, session, sweep, metric, lifespan, queue>>

\* broadcast_message, line 111: the keys are copied into a list before the
\* loop.
CallBroadcast ==
  /\ CanCall
  /\ call' = [Begin("broadcast_message", "notification", 0) EXCEPT
                !.pc = "bcast_loop",
                !.keys = DictKeyList(manager.active_connections)]
  /\ UNCHANGED <<manager, transport, now, session, sweep, metric, lifespan, queue>>

\* NotificationService.notify_new_detection, lines 186-200.
CallNotifyNewDetection ==
  /\ CanCall
  /\ call' = [Begin("notify_new_detection", "new_detection", 0) EXCEPT
                !.pc = "role_loop", !.role = "reviewer", !.roles = <<"admin">>,
                !.it = DictIter(manager.active_connections)]
  /\ UNCHANGED <<manager, transport, now, session, sweep, metric, lifespan, queue>>

\* Mutant: the completed review is announced to the reviewers only.
CallNotifyReviewCompleted_reviewers_only ==
  /\ CanCall
  /\ call' = [Begin("notify_review_completed", "review_completed", 0) EXCEPT
                !.pc = "role_loop", !.role = "reviewer",
                !.it = DictIter(manager.active_connections)]
  /\ UNCHANGED <<manager, transport, now, session, sweep, metric, lifespan, queue>>

\* NotificationService.notify_review_completed, lines 202-215.
CallNotifyReviewCompleted ==
  /\ CanCall
  /\ call' = [Begin("notify_review_completed", "review_completed", 0) EXCEPT
                !.pc = "bcast_loop",
                !.keys = DictKeyList(manager.active_connections)]
  /\ UNCHANGED <<manager, transport, now, session, sweep, metric, lifespan, queue>>

\* NotificationService.notify_system_alert, lines 217-234.
CallNotifySystemAlert ==
  /\ CanCall
  /\ call' = [Begin("notify_system_alert", "system_alert", 0) EXCEPT
                !.pc = "role_loop", !.role = "admin",
                !.it = DictIter(manager.active_connections)]
  /\ UNCHANGED <<manager, transport, now, session, sweep, metric, lifespan, queue>>

\* Mutant: a heartbeat on a websocket the manager does not know records
\* the heartbeat all the same and acknowledges it.
CallHeartbeat_revive(ws) ==
  /\ CanCall
  /\ WasRegistered(ws)
  /\ manager' = [manager EXCEPT !.connection_metadata.data[ws] =
                   [connected_at |-> now, last_heartbeat |-> now]]
  /\ call' = [Begin("handle_heartbeat", "heartbeat_ack", ws) EXCEPT
                !.pc = "write", !.ws = ws]
  /\ UNCHANGED <<transport, now, session, sweep, metric, lifespan, queue>>

\* handle_heartbeat, lines 152-160.
CallHeartbeat(ws) ==
  /\ CanCall
  /\ WasRegistered(ws)
  /\ IF manager.connection_metadata.data[ws] # NoMeta
     THEN /\ manager' = [manager EXCEPT
                !.connection_metadata.data[ws].last_heartbeat = now]
          /\ call' = [Begin("handle_heartbeat", "heartbeat_ack", ws) EXCEPT
                        !.pc = "write", !.ws = ws]
     ELSE /\ call' = Finish(Begin("handle_heartbeat", "heartbeat_ack", ws), "returned")
          /\ UNCHANGED manager
  /\ UNCHANGED <<transport, now, session, sweep, metric, lifespan, queue>>


\* Mutant: the loop over the users returns after the first user.
Parent_return_early(c) == "done"

\* Where send_user_message returns to.
Parent(c) == IF c.api \in RoleApis THEN "role_loop"
             ELSE IF c.api \in BcastApis THEN "bcast_loop"
             ELSE "done"

\* The index of the next live slot of the entries array at or after pos, or 0.
NextSlot(d, pos) ==
  LET live == {i \in pos..Len(d.entries) : d.entries[i] # Tomb}
  IN IF live = {} THEN 0 ELSE CHOOSE i \in live : \A j \in live : i <= j

\* Mutant: the role is tested for every connection of the user, against
\* the user recorded for that connection.
RoleStep_per_connection ==
  /\ call.pc = "role_loop"
  /\ LET d == manager.active_connections
         i == NextSlot(d, call.it.pos)
     IN IF call.it.used # DictSize(d)
        THEN call' = Finish(call, "raised")
        ELSE IF i = 0
        THEN IF call.roles = << >>
             THEN call' = Finish(call, "returned")
             ELSE call' = [call EXCEPT !.role = Head(call.roles),
                                       !.roles = Tail(call.roles),
                                       !.it = DictIter(d)]
        ELSE IF call.it.len = 0
        THEN call' = Finish(call, "raised")
        ELSE LET uid == d.entries[i]
                 c == [call EXCEPT !.it.pos = i + 1, !.it.len = @ - 1]
             IN call' = [EnterUser(c, uid, "role_loop") EXCEPT
                           !.conns = {w \in @ :
                                        manager.connection_users[w].role = call.role}]
  /\ UNCHANGED <<manager, transport, now, session, sweep, metric, lifespan, queue>>

\* send_role_message, lines 101-107: one step of the loop over
\* self.active_connections.items().  The dict iterator raises RuntimeError
\* when the dict's size differs from the size at the start of the loop, or
\* when it meets more keys than the dict had then.
RoleStep ==
  /\ call.pc = "role_loop"
  /\ LET d == manager.active_connections
         i == NextSlot(d, call.it.pos)
     IN IF call.it.used # DictSize(d)
        THEN call' = Finish(call, "raised")
        ELSE IF i = 0
        THEN IF call.roles = << >>
             THEN call' = Finish(call, "returned")
             ELSE call' = [call EXCEPT !.role = Head(call.roles),
                                       !.roles = Tail(call.roles),
                                       !.it = DictIter(d)]
        ELSE IF call.it.len = 0
        THEN call' = Finish(call, "raised")
        ELSE LET uid == d.entries[i]
                 c == [call EXCEPT !.it.pos = i + 1, !.it.len = @ - 1]
             IN IF d.sets[uid] = {}
                THEN call' = c
                ELSE \E first \in d.sets[uid] :
                       LET user == manager.connection_users[first]
                       IN IF user # NoUser /\ user.role = call.role
                          THEN call' = EnterUser(c, uid, "role_loop")
                          ELSE call' = c
  /\ UNCHANGED <<manager, transport, now, session, sweep, metric, lifespan, queue>>

\* broadcast_message, lines 111-112: one step of the loop over the key list.
BcastStep ==
  /\ call.pc = "bcast_loop"
  /\ IF call.keys = << >>
     THEN call' = Finish(call, "returned")
     ELSE call' = EnterUser([call EXCEPT !.keys = Tail(call.keys)],
                            Head(call.keys), "bcast_loop")
  /\ UNCHANGED <<manager, transport, now, session, sweep, metric, lifespan, queue>>

\* send_user_message, lines 88-97: the next connection of the copied set is
\* handed to send_personal_message, which awaits send_text.  No exception
\* leaves send_personal_message, so disconnected_connections stays empty.
UserStep ==
  /\ call.pc = "user_loop"
  /\ IF call.conns = {}
     THEN call' = IF Parent(call) = "done" THEN Finish(call, "returned")
                  ELSE [call EXCEPT !.pc = Parent(call), !.uid = 0]
     ELSE \E ws \in call.conns :
            call' = [call EXCEPT !.pc = "write", !.ws = ws, !.conns = @ \ {ws}]
  /\ UNCHANGED <<manager, transport, now, session, sweep, metric, lifespan, queue>>

\* Mutant: a failed write is logged and the connection is kept.
send_personal_message_keep(m, ws, ok) == m

\* send_personal_message, lines 70-79: the awaited send_text returns or
\* raises; on any exception the connection is unregistered and the
\* exception is swallowed.
send_personal_message(m, ws, ok) == IF ok THEN m ELSE disconnect(m, ws)

\* The awaited send_text (line 76, no timeout around it) neither returns nor
\* raises while the transport is stalled.
WriteDone(ok) ==
  /\ call.pc = "write"
  /\ transport[call.ws].state # "stalled"
  /\ ok => CanSucceed(call.ws)
  /\ transport' = send_text(transport, call.ws, call.type, call.mid, ok)
  /\ manager' = send_personal_message(manager, call.ws, ok)
  /\ call' = IF call.api \in {"send_personal_message", "handle_heartbeat"}
             THEN Finish(call, "returned")
             ELSE [call EXCEPT !.pc = "user_loop", !.ws = 0]
  /\ UNCHANGED <<now, session, sweep, metric, lifespan, queue>>

\* The call returns, or raises, into the code that made it.
CallReturn ==
  /\ call.pc = "done"
  /\ call' = [CallInit EXCEPT !.mid = call.mid]
  /\ UNCHANGED <<manager, transport, now, session, sweep, metric, lifespan, queue>>

\* ------------------------------------------------------- periodic_cleanup
SweepInit == [pc |-> "sleep", stale |-> << >>, ws |-> 0]

heartbeat_timeout == websocket_heartbeat_interval * 2

\* Mutant: a heartbeat exactly as old as the timeout counts as stale.
stale_connections_inclusive(m, t) ==
  SelectSeq(m.connection_metadata.order,
            LAMBDA w : m.connection_metadata.data[w].last_heartbeat
                         <= t - heartbeat_timeout)

\* Mutant: staleness is computed from the time of connection.
stale_connections_by_connect_time(m, t) ==
  SelectSeq(m.connection_metadata.order,
            LAMBDA w : m.connection_metadata.data[w].connected_at
                         < t - heartbeat_timeout)

\* cleanup_stale_connections, lines 164-171: the stale list, in dict order.
stale_connections(m, t) ==
  SelectSeq(m.connection_metadata.order,
            LAMBDA w : m.connection_metadata.data[w].last_heartbeat
                         < t - heartbeat_timeout)

\* Mutant: the sweep drops the stale connection's metadata only.
SweepEvict_metadata_only(m, sw, stale) ==
  IF stale = << >>
  THEN [m |-> m, sw |-> SweepInit]
  ELSE [m |-> [m EXCEPT !.connection_metadata =
                 [order |-> SelectSeq(@.order, LAMBDA w : w # Head(stale)),
                  data |-> [@.data EXCEPT ![Head(stale)] = NoMeta]]],
        sw |-> [pc |-> "closing", stale |-> Tail(stale), ws |-> Head(stale)]]

\* Lines 173-177: the next stale connection is unregistered, then its
\* close() is awaited.
SweepEvict(m, sw, stale) ==
  IF stale = << >>
  THEN [m |-> m, sw |-> SweepInit]
  ELSE [m |-> disconnect(m, Head(stale)),
        sw |-> [pc |-> "closing", stale |-> Tail(stale), ws |-> Head(stale)]]

\* The sleep of periodic_cleanup (line 247, or line 250 after an error) ends
\* and a sweep starts.
SweepStart ==
  /\ ~Running
  /\ sweep.pc \in {"sleep", "backoff"}
  /\ LET r == SweepEvict(manager, sweep, stale_connections(manager, now))
     IN manager' = r.m /\ sweep' = r.sw
  /\ UNCHANGED <<transport, now, session, call, metric, lifespan, queue>>

\* Mutant: a close() that raises ends the sweep.
SweepClose_abort_on_failure(ok) ==
  /\ ~Running
  /\ sweep.pc = "closing"
  /\ ok => transport[sweep.ws].state = "open"
  /\ transport' = close(transport, sweep.ws, IF ok THEN 1000 ELSE 0)
  /\ LET r == IF ok THEN SweepEvict(manager, sweep, sweep.stale)
              ELSE [m |-> manager, sw |-> SweepInit]
     IN manager' = r.m /\ sweep' = r.sw
  /\ UNCHANGED <<now, session, call, metric, lifespan, queue>>

\* Lines 176-179: close() returns, or raises (swallowed by the bare except)
\* because the transport is already closed or breaks under the close frame:
\* either way it is closed afterwards.  The loop goes on to the next stale
\* connection, or the sweep ends.
SweepClose(ok) ==
  /\ ~Running
  /\ sweep.pc = "closing"
  /\ ok => transport[sweep.ws].state = "open"
  /\ transport' = close(transport, sweep.ws, IF ok THEN 1000 ELSE 0)
  /\ LET r == SweepEvict(manager, sweep, sweep.stale)
     IN manager' = r.m /\ sweep' = r.sw
  /\ UNCHANGED <<now, session, call, metric, lifespan, queue>>

\* Mutant: an exception raised by a sweep ends the task.
SweepFail_fatal ==
  /\ ~Running
  /\ sweep.pc = "sleep"
  /\ sweep' = [SweepInit EXCEPT !.pc = "dead"]
  /\ UNCHANGED <<manager, transport, now, session, call, metric, lifespan, queue>>

\* periodic_cleanup, lines 245-250: a sweep raises an exception that
\* cleanup_stale_connections does not handle itself (a fault of the
\* environment: nothing in the sweep is known to raise).  The except
\* clause logs it and the task sleeps 60 seconds before the next sweep.
SweepFail ==
  /\ ~Running
  /\ sweep.pc = "sleep"
  /\ sweep' = [SweepInit EXCEPT !.pc = "backoff"]
  /\ UNCHANGED <<manager, transport, now, session, call, metric, lifespan, queue>>

\* lifespan, lines 73-76: shutdown cancels cleanup_task and awaits it.  The
\* CancelledError is raised in the task at the await it is suspended at.
\* At a sleep (line 247 or 250) no handler catches it (it is not an
\* Exception) and the task ends.  At the close() of a stale connection
\* (line 177) the bare except swallows it: the close frame may or may not
\* have gone out, and the sweep goes on as after any failed close.
LifespanShutdown(sent) ==
  /\ ~Running
  /\ lifespan = "serving"
  /\ lifespan' = "awaiting"
  /\ IF sweep.pc = "closing"
     THEN /\ transport' = close(transport, sweep.ws, IF sent THEN 1000 ELSE 0)
          /\ LET r == SweepEvict(manager, sweep, sweep.stale)
             IN manager' = r.m /\ sweep' = r.sw
     ELSE /\ sent
          /\ sweep' = [SweepInit EXCEPT !.pc = "cancelled"]
          /\ UNCHANGED <<manager, transport>>
  /\ UNCHANGED <<now, session, call, metric, queue>>

\* lifespan, lines 76-80: the awaited task has ended; shutdown completes.
LifespanStopped ==
  /\ lifespan = "awaiting"
  /\ sweep.pc = "cancelled"
  /\ lifespan' = "stopped"
  /\ UNCHANGED <<manager, transport, now, session, call, sweep, metric, queue>>

\* ------------------------- RabbitMQConsumer (ml-worker/app/queue_consumer.py)
\* The worker consumes with manual acknowledgement and a prefetch count of
\* one.  A message is its body (valid JSON or not, and the retry_count field
\* of the JSON, 0 when absent) and where the broker holds it; requeues counts
\* how often the broker has put it back.  asyncio.new_event_loop and the
\* channel's ack and nack are taken not to raise.
Msgs == 1..NumMsgs
RetryCounts == 0..retry_attempts
QueueInit ==
  [m \in Msgs |-> [state |-> "unpublished", valid |-> TRUE,
                   retry_count |-> 0, requeues |-> 0]]

\* What the message handler does with a decoded message: it returns, or
\* raises one of these.
Errors == {"FileNotFoundError", "ValueError", "JSONDecodeError", "RuntimeError"}
non_retryable_errors == {"FileNotFoundError", "ValueError", "JSONDecodeError"}

\* _should_requeue, lines 160-189.
should_requeue(message_data, error) ==
  IF message_data.retry_count >= retry_attempts THEN FALSE
  ELSE IF error \in non_retryable_errors THEN FALSE
  ELSE TRUE

\* channel.basic_ack and channel.basic_nack: the broker drops the message,
\* or puts it back in the queue as it was published.
basic_ack(q, m) == [q EXCEPT ![m].state = "acked"]
basic_nack(q, m, requeue) ==
  IF requeue
  THEN [q EXCEPT ![m].state = "ready", ![m].requeues = @ + 1]
  ELSE [q EXCEPT ![m].state = "discarded"]

\* A producer publishes a message (messages are numbered in the order they
\* are published).
Publish(m, valid, rc) ==
  /\ queue[m].state = "unpublished"
  /\ \A k \in Msgs : k < m => queue[k].state # "unpublished"
  /\ ~valid => rc = 0
  /\ queue' = [queue EXCEPT ![m] = [state |-> "ready", valid |-> valid,
                                    retry_count |-> rc, requeues |-> 0]]
  /\ UNCHANGED <<manager, transport, now, session, call, sweep, metric, lifespan>>

\* process_message, lines 83-110: the broker delivers a ready message when
\* no other is unacknowledged (basic_qos, line 58).  A body that is not JSON
\* is rejected without requeue; a decoded message is handed to the thread
\* pool and stays unacknowledged.
process_message(m) ==
  /\ queue[m].state = "ready"
  /\ \A k \in Msgs : queue[k].state # "processing"
  /\ queue' = IF queue[m].valid
              THEN [queue EXCEPT ![m].state = "processing"]
              ELSE basic_nack(queue, m, FALSE)
  /\ UNCHANGED <<manager, transport, now, session, call, sweep, metric, lifespan>>

\* _handle_message_sync, lines 112-158: the handler returns and the message
\* is acknowledged, or it raises and the message is nacked, with requeue as
\* _should_requeue decides.
handle_message_sync(m, outcome) ==
  /\ queue[m].state = "processing"
  /\ IF outcome = "ok"
     THEN queue' = basic_ack(queue, m)
     ELSE /\ should_requeue(queue[m], outcome) => queue[m].requeues < MaxRequeues
          /\ queue' = basic_nack(queue, m, should_requeue(queue[m], outcome))
  /\ UNCHANGED <<manager, transport, now, session, call, sweep, metric, lifespan>>

\* ------------------------------------------------------------------- time
\* Time passes while every task is suspended.  The clock jumps by the
\* heartbeat timeout or by one second more, which gives a connection every
\* age the sweep tells apart: below, exactly at and beyond the timeout.
Tick(d) ==
  /\ ~Running
  /\ now < MaxTicks * heartbeat_timeout
  /\ now' = now + d
  /\ UNCHANGED <<manager, transport, session, call, sweep, metric, lifespan, queue>>

\* ---------------------------------------------------------- specification
Init ==
  /\ manager = ManagerInit
  /\ transport = TransportInit
  /\ now = 0
  /\ session = SessionInit
  /\ call = CallInit
  /\ sweep = SweepInit
  /\ metric = 0
  /\ lifespan = "serving"
  /\ queue = QueueInit

SessionStep ==
  \/ \E ws \in WS, cred \in Creds, accepted \in BOOLEAN : SessionStart(ws, cred, accepted)
  \/ \E ws \in WS, ok \in BOOLEAN : SessionWelcome(ws, ok)
  \/ \E ws \in WS, ev \in {"WebSocketDisconnect"} \cup InboundFrames : SessionRecv(ws, ev)

\* Calls on the ConnectionManager.
ManagerCall ==
  \/ \E ws \in WS : CallPersonal(ws, "notification")
  \/ \E uid \in UserIds : CallUser(uid)
  \/ \E role \in Roles : CallRole(role)
  \/ CallBroadcast
  \/ \E ws \in WS : CallHeartbeat(ws)

\* Calls on the NotificationService, which wrap the manager's role and
\* broadcast loops.
ServiceCall ==
  \/ CallNotifyNewDetection
  \/ CallNotifyReviewCompleted
  \/ CallNotifySystemAlert

CallStep ==
  \/ RoleStep
  \/ BcastStep
  \/ UserStep
  \/ \E ok \in BOOLEAN : WriteDone(ok)
  \/ CallReturn

SweepStep ==
  \/ SweepStart
  \/ \E ok \in BOOLEAN : SweepClose(ok)

Ticks == \E d \in {heartbeat_timeout, heartbeat_timeout + 1} : Tick(d)

\* Every task interleaved at its awaits: the sessions, one caller of the
\* manager at a time, the sweeper, and the clock.
Next ==
  /\ SessionStep \/ ManagerCall \/ CallStep \/ SweepStep \/ Ticks
  /\ call'.mid <= MaxOps

Spec == Init /\ [][Next]_vars

\* One operation at a time: no task is between two awaits of an operation.
Quiescent ==
  /\ \A w \in WS : session[w].pc \in {"idle", "recv", "done"}
  /\ call.pc = "idle"
  /\ sweep.pc = "sleep"

SessionBegin ==
  \/ \E ws \in WS, cred \in Creds, accepted \in BOOLEAN : SessionStart(ws, cred, accepted)
  \/ \E ws \in WS, ev \in {"WebSocketDisconnect"} \cup InboundFrames : SessionRecv(ws, ev)

SessionContinue == \E ws \in WS, ok \in BOOLEAN : SessionWelcome(ws, ok)

\* Any sequence of connect and disconnect calls, each run to completion.
NextRegistry ==
  \/ Quiescent /\ SessionBegin
  \/ SessionContinue

SpecRegistry == Init /\ [][NextRegistry]_vars

\* Connects, disconnects and calls into the manager, one after the other.
NextSeq ==
  /\ \/ Quiescent /\ (SessionBegin \/ ManagerCall \/ ServiceCall)
     \/ SessionContinue
     \/ CallStep
  /\ call'.mid <= MaxSeqOps

SpecSeq == Init /\ [][NextSeq]_vars

\* Connects, disconnects and calls into the manager, one after the other,
\* with peers that may stop reading between two operations.
NextStall ==
  /\ \/ Quiescent /\ (SessionBegin \/ ManagerCall \/ \E ws \in WS : PeerStalls(ws))
     \/ SessionContinue
     \/ CallStep
  /\ call'.mid <= MaxOps

SpecStall == Init /\ [][NextStall]_vars

\* The sessions, the sweeper and the clock, with no delivery in progress.
NextSweep == SessionStep \/ SweepStep \/ Ticks

SpecSweep == Init /\ [][NextSweep]_vars

MonitorStep ==
  \/ SweepFail
  \/ \E sent \in BOOLEAN : LifespanShutdown(sent)
  \/ LifespanStopped

\* The sessions, the sweeper with its faults, the clock and the shutdown.
NextMonitor == SessionStep \/ SweepStep \/ Ticks \/ MonitorStep

SpecMonitor == Init /\ [][NextMonitor]_vars

\* The event loop resumes the sweeper when its sleep is over and when the
\* close() it awaits has returned or raised.
FairSpecMonitor ==
  /\ SpecMonitor
  /\ WF_vars(SweepStart)
  /\ WF_vars(\E ok \in BOOLEAN : SweepClose(ok))


ConsumerStep ==
  \/ \E m \in Msgs, valid \in BOOLEAN, rc \in RetryCounts : Publish(m, valid, rc)
  \/ \E m \in Msgs : process_message(m)
  \/ \E m \in Msgs, outcome \in {"ok"} \cup Errors : handle_message_sync(m, outcome)

\* The ml-worker's consumer and its queue.
NextConsumer == ConsumerStep

SpecConsumer == Init /\ [][NextConsumer]_vars

\* ================================================================== claims
\* What the claims read off a state.
Registered(m, ws) == m.connection_users[ws] # NoUser
InSomeSet(m, ws) == \E u \in UserIds : ws \in m.active_connections.sets[u]
Gone(m, ws) ==
  /\ ~Registered(m, ws)
  /\ ~InSomeSet(m, ws)
  /\ m.connection_metadata.data[ws] = NoMeta
FramesOf(ws) == transport[ws].frames
Attempts(ws, mid) == {i \in 1..Len(FramesOf(ws)) : FramesOf(ws)[i].mid = mid}
Attempted(ws, mid) == Attempts(ws, mid) # {}
Delivered(ws, mid) == \E i \in Attempts(ws, mid) : FramesOf(ws)[i].ok
HasFailed(ws) == \E i \in 1..Len(FramesOf(ws)) : ~FramesOf(ws)[i].ok
WroteTo(ws) == transport'[ws].frames # transport[ws].frames
LastFailed(ws) == ~transport'[ws].frames[Len(transport'[ws].frames)].ok
\* The connections registered when the current call began, and their users.
AtStart(ws) == call.start[ws] # NoUser
StartIds == {call.start[w].id : w \in {x \in WS : AtStart(x)}}
StartSet(uid) == {w \in WS : AtStart(w) /\ call.start[w].id = uid}
\* Every connection of one user id was registered with the same role.
RolesAgree == \A w1, w2 \in WS :
  (AtStart(w1) /\ AtStart(w2) /\ call.start[w1].id = call.start[w2].id)
    => call.start[w1].role = call.start[w2].role
Done(api) == call.pc = "done" /\ call.api = api

RegistryConsistent(m) ==
  LET ac == m.active_connections
  IN /\ \A u \in DictKeys(ac) : ac.sets[u] # {}
     /\ \A u \in UserIds : \A ws \in ac.sets[u] :
          /\ DictHas(ac, u)
          /\ Registered(m, ws)
          /\ m.connection_users[ws].id = u
     /\ \A ws \in WS : Registered(m, ws) =>
          /\ ws \in ac.sets[m.connection_users[ws].id]
          /\ Cardinality({u \in UserIds : ws \in ac.sets[u]}) = 1
     /\ \A ws \in WS :
          Registered(m, ws) <=> m.connection_metadata.data[ws] # NoMeta
     /\ Range(m.connection_metadata.order) =
          {ws \in WS : m.connection_metadata.data[ws] # NoMeta}

\* C1: after every call of any sequence of connect and disconnect calls, no
\* user entry of active_connections is an empty set, every registered
\* connection is in exactly one user's set, that user is the one
\* connection_users records for it, every connection of a set has a
\* connection_users entry, and connection_metadata holds the same
\* connections as connection_users.
C1_RegistryInvariant == RegistryConsistent(manager)

\* A user entry has been removed (its last connection was unregistered)
\* while another user is still registered.
C1_Witness ==
  /\ Quiescent
  /\ Tomb \in Range(manager.active_connections.entries)
  /\ DictSize(manager.active_connections) >= 1

\* C2: under every interleaving of sessions, heartbeats, deliveries whose
\* writes may fail, sweeps and the clock, whenever every task is suspended
\* at an await the three dicts of the manager agree and no user entry is an
\* empty set.
C2_AtomicRegistryMutations == ~Running => RegistryConsistent(manager)

\* A delivery is suspended on a write to a connection that a sweep has just
\* unregistered and is closing, while another session awaits its welcome.
C2_Witness ==
  /\ call.pc = "write"
  /\ sweep.pc = "closing"
  /\ sweep.ws = call.ws
  /\ \E ws \in WS : session[ws].pc = "welcome"

\* C3: when send_role_message(role) finishes, every connection that was
\* registered at its start to a user of that role has had its write
\* attempted in this call, whatever writes failed on other connections.
C3_RoleSendIsolatesFailure ==
  (Done("send_role_message") /\ RolesAgree) =>
    \A ws \in WS :
      (AtStart(ws) /\ call.start[ws].role = call.role) => Attempted(ws, call.mid)

\* C4: notify_new_detection, notify_review_completed and
\* notify_system_alert return normally, whatever writes failed.
C4_NotifyNeverRaises ==
  (call.pc = "done" /\ call.api \in
     {"notify_new_detection", "notify_review_completed", "notify_system_alert"})
    => call.result = "returned"

\* The calls that deliver through send_user_message.
UserSendApis ==
  {"send_user_message", "send_role_message", "broadcast_message",
   "notify_new_detection", "notify_review_completed", "notify_system_alert"}

\* C5: a step that ends a failed write on a connection leaves it in none of
\* the three dicts, and once a write has failed on a connection no step of
\* a later delivery through send_user_message writes to it.
C5_FailedSendEvictsForGood ==
  [][\A ws \in WS :
       /\ (WroteTo(ws) /\ LastFailed(ws)) => Gone(manager', ws)
       /\ (HasFailed(ws) /\ call.api \in UserSendApis) => ~WroteTo(ws)]_vars

\* A second call, send_user_message for the owner of a connection whose
\* earlier write failed, has delivered to the owner's other connection.
C5_Witness ==
  /\ Done("send_user_message")
  /\ \E ws, other \in WS :
       /\ ws # other
       /\ session[ws].user.id = call.arg
       /\ \E i \in 1..Len(FramesOf(ws)) :
            ~FramesOf(ws)[i].ok /\ FramesOf(ws)[i].mid < call.mid
       /\ ~Attempted(ws, call.mid)
       /\ Delivered(other, call.mid)

\* C6: a connection on which the write of a delivery has failed is closed.
C6_FailedSendCloses ==
  \A ws \in WS :
    (\E i \in 1..Len(FramesOf(ws)) :
       ~FramesOf(ws)[i].ok /\ FramesOf(ws)[i].type # "connection_established")
      => transport[ws].state = "closed"

\* C7: when send_user_message(user) returns, every connection that was in
\* the user's set at the start has had exactly one write attempt, a
\* connection is unregistered exactly if its write failed, no other
\* connection was written to or unregistered, and the call did not raise.
C7_UserSendIsolatesFailure ==
  Done("send_user_message") =>
    /\ call.result = "returned"
    /\ \A ws \in StartSet(call.arg) :
         /\ Cardinality(Attempts(ws, call.mid)) = 1
         /\ Registered(manager, ws) <=> Delivered(ws, call.mid)
    /\ \A ws \in WS \ StartSet(call.arg) :
         /\ ~Attempted(ws, call.mid)
         /\ Registered(manager, ws) <=> AtStart(ws)

\* The user had two connections; the write failed on one and was delivered
\* on the other.
C7_Witness ==
  /\ Done("send_user_message")
  /\ \E ws, other \in StartSet(call.arg) :
       /\ Attempted(ws, call.mid) /\ ~Delivered(ws, call.mid)
       /\ Delivered(other, call.mid)

\* The users get_connected_users lists.
Listed(m) == {get_connected_users(m)[i].user_id :
                i \in 1..Len(get_connected_users(m))}

\* C8: when broadcast_message finishes it has not raised; a user whose only
\* connection failed its write has no entry left and is not listed by
\* get_connected_users; and every connection registered at the start has
\* had its write attempted.
C8_BroadcastSurvivesFailure ==
  Done("broadcast_message") =>
    /\ call.result = "returned"
    /\ \A ws \in WS : AtStart(ws) => Attempted(ws, call.mid)
    /\ \A ws \in WS :
         (StartSet(call.start[ws].id) = {ws} /\ ~Delivered(ws, call.mid)) =>
           /\ Gone(manager, ws)
           /\ ~DictHas(manager.active_connections, call.start[ws].id)
           /\ call.start[ws].id \notin Listed(manager)

\* User A's only connection failed its write and another user received the
\* broadcast.
C8_Witness ==
  /\ Done("broadcast_message")
  /\ \E a, b \in WS :
       /\ StartSet(call.start[a].id) = {a}
       /\ Attempted(a, call.mid) /\ ~Delivered(a, call.mid)
       /\ AtStart(b) /\ call.start[b].id # call.start[a].id
       /\ Delivered(b, call.mid)

\* C9: under every interleaving, a broadcast writes only to connections of
\* users that were registered when it was called; and when it returns,
\* every connection that was registered at the call and still is has
\* received the envelope.
C9_BroadcastSnapshot ==
  call.api = "broadcast_message" =>
    /\ \A ws \in WS :
         Attempted(ws, call.mid) => session[ws].user.id \in StartIds
    /\ call.pc = "done" =>
         /\ call.result = "returned"
         /\ \A ws \in WS :
              (AtStart(ws) /\ Registered(manager, ws)) => Delivered(ws, call.mid)

\* A user connected while the broadcast was suspended on a write: the
\* broadcast has returned, the earlier user received it, the new one did not.
C9_Witness ==
  /\ Done("broadcast_message")
  /\ \E old, new \in WS :
       /\ AtStart(old) /\ Delivered(old, call.mid)
       /\ ~AtStart(new) /\ Registered(manager, new)
       /\ manager.connection_users[new].id \notin StartIds
       /\ ~Attempted(new, call.mid)

\* C10: when notify_new_detection finishes, every connection that was
\* registered at its start to a reviewer or an admin has had its write
\* attempted, and no connection of an operator has.
C10_NewDetectionRouting ==
  (Done("notify_new_detection") /\ RolesAgree) =>
    \A ws \in WS : AtStart(ws) =>
      IF call.start[ws].role \in {"reviewer", "admin"}
      THEN Attempted(ws, call.mid)
      ELSE ~Attempted(ws, call.mid)

\* The frames of a call written to a connection, by envelope type.
AttemptsOfType(ws, mid, type) ==
  {i \in Attempts(ws, mid) : FramesOf(ws)[i].type = type}

\* C11: when notify_review_completed finishes it has returned, and every
\* connection registered at its start, whatever the role of its user, has
\* had exactly one write of a review_completed envelope attempted.
C11_ReviewCompletedToAll ==
  Done("notify_review_completed") =>
    /\ call.result = "returned"
    /\ \A ws \in WS : AtStart(ws) =>
         /\ Cardinality(AttemptsOfType(ws, call.mid, "review_completed")) = 1
         /\ Attempts(ws, call.mid) = AttemptsOfType(ws, call.mid, "review_completed")

\* An operator and a user of another role have both received the
\* review_completed envelope.
C11_Witness ==
  /\ Done("notify_review_completed")
  /\ \E a, b \in WS :
       /\ AtStart(a) /\ call.start[a].role = "operator"
       /\ AtStart(b) /\ call.start[b].role # "operator"
       /\ Delivered(a, call.mid) /\ Delivered(b, call.mid)

\* C12: when notify_system_alert finishes, every connection registered at
\* its start to an admin has had the write of a system_alert envelope
\* attempted, and no connection of a reviewer or an operator has been
\* written to.
C12_SystemAlertRouting ==
  (Done("notify_system_alert") /\ RolesAgree) =>
    \A ws \in WS : AtStart(ws) =>
      IF call.start[ws].role = "admin"
      THEN AttemptsOfType(ws, call.mid, "system_alert") # {}
      ELSE ~Attempted(ws, call.mid)

\* The time since a registered connection's last heartbeat.
Age(m, ws, t) == t - m.connection_metadata.data[ws].last_heartbeat
\* The connections a sweep has collected and not yet finished with.
SweepWork(sw) == IF sw.pc = "closing" THEN {sw.ws} \cup Range(sw.stale) ELSE {}
\* A step leaves a connection as it was.
SameAfter(ws) ==
  /\ manager'.connection_users[ws] = manager.connection_users[ws]
  /\ manager'.connection_metadata.data[ws] = manager.connection_metadata.data[ws]
  /\ \A u \in UserIds : ws \in manager'.active_connections.sets[u]
                           <=> ws \in manager.active_connections.sets[u]
  /\ transport'[ws] = transport[ws]

\* C13: in every step of a sweep: when the sweep starts, each registered
\* connection whose last heartbeat is older than 2 x
\* websocket_heartbeat_interval is collected and each one with a fresher
\* heartbeat is not; every collected connection is taken in turn, is
\* unregistered, and is closed when its close() has been awaited; and no
\* step of the sweep changes the registration, the metadata or the
\* transport of a connection it has not collected.
C13_SweepEvictsStaleOnly ==
  [][sweep' # sweep =>
       /\ sweep.pc = "sleep" =>
            \A ws \in WS : Registered(manager, ws) =>
              /\ Age(manager, ws, now) > 2 * websocket_heartbeat_interval
                   => ws \in SweepWork(sweep')
              /\ Age(manager, ws, now) < 2 * websocket_heartbeat_interval
                   => ws \notin SweepWork(sweep')
       /\ sweep.pc = "closing" =>
            /\ transport'[sweep.ws].state = "closed"
            /\ SweepWork(sweep') = Range(sweep.stale)
       /\ sweep'.pc = "closing" => Gone(manager', sweep'.ws)
       /\ \A ws \in WS \ (SweepWork(sweep) \cup SweepWork(sweep')) : SameAfter(ws)
    ]_vars

\* A sweep has unregistered a stale connection and is closing it, while a
\* connection with a fresh heartbeat is still registered and open.
C13_Witness ==
  /\ sweep.pc = "closing"
  /\ Gone(manager, sweep.ws)
  /\ \E ws \in WS \ SweepWork(sweep) :
       /\ Registered(manager, ws)
       /\ Age(manager, ws, now) < 2 * websocket_heartbeat_interval
       /\ transport[ws].state = "open"

\* C14: when a heartbeat frame arrives on connection c1 of a user whose
\* other connection c2 has sent none for more than 2 x the interval, c1
\* stays registered with a fresh heartbeat, and the sweep that follows
\* evicts c2 only: the user's entry remains, with c1 as its one connection.
C14_HeartbeatPerConnection ==
  [][\A c1, c2 \in WS :
       ( /\ c1 # c2
         /\ Registered(manager, c1) /\ Registered(manager, c2)
         /\ manager.connection_users[c1].id = manager.connection_users[c2].id
         /\ session[c2].pc = "recv"
         /\ Age(manager, c2, now) > 2 * websocket_heartbeat_interval
         /\ SessionRecv(c1, "heartbeat") )
       => LET r == SweepEvict(manager', SweepInit, stale_connections(manager', now))
              uid == manager.connection_users[c1].id
          IN /\ Age(manager', c1, now) = 0
             /\ r.sw.pc = "closing" /\ r.sw.ws = c2 /\ r.sw.stale = << >>
             /\ Gone(r.m, c2)
             /\ Registered(r.m, c1)
             /\ DictHas(r.m.active_connections, uid)
             /\ r.m.active_connections.sets[uid] = {c1}
    ]_vars

\* The connections a sweep would collect if it started in this state.
WouldCollect ==
  SweepWork(SweepEvict(manager, SweepInit, stale_connections(manager, now)).sw)

\* C15 as stated: whenever the sweeper is about to sweep, a registered
\* connection whose last heartbeat is at least 2 x the interval old is
\* collected for eviction, one of exactly that age included.
C15_StaleAtTimeout ==
  sweep.pc = "sleep" =>
    \A ws \in WS :
      (Registered(manager, ws)
         /\ Age(manager, ws, now) >= 2 * websocket_heartbeat_interval)
      => ws \in WouldCollect

\* C15 amended: whenever the sweeper is about to sweep, a registered
\* connection is collected for eviction exactly if its last heartbeat is
\* more than 2 x the interval old; one of exactly that age is left alone.
C15_StaleBeyondTimeout ==
  sweep.pc = "sleep" =>
    \A ws \in WS : Registered(manager, ws) =>
      (ws \in WouldCollect
         <=> Age(manager, ws, now) > 2 * websocket_heartbeat_interval)

\* The sweeper is about to sweep while a connection's last heartbeat is
\* exactly 2 x the interval old, and the sweep collects nothing.
C15_Witness ==
  /\ sweep.pc = "sleep"
  /\ \E ws \in WS :
       /\ Registered(manager, ws)
       /\ session[ws].pc = "recv"
       /\ Age(manager, ws, now) = 2 * websocket_heartbeat_interval
  /\ WouldCollect = {}

\* The handshake of a connection was rejected: the token was missing or
\* get_current_user raised.
Rejected(ws) == session[ws].pc = "done" /\ session[ws].user = NoUser

\* C16: a connection is in a registry map only if get_current_user returned
\* an active user for it, and then under that user; a connection whose
\* token was missing or invalid, whose user is inactive or whose
\* verification failed is closed in the step that rejects it, is in none of
\* the three maps and has never been written to.
C16_RegisteredOnlyVerified ==
  \A ws \in WS :
    /\ ~Gone(manager, ws) =>
         /\ session[ws].user \in Users
         /\ manager.connection_users[ws] = session[ws].user
    /\ session[ws].user = NoUser =>
         /\ Gone(manager, ws)
         /\ FramesOf(ws) = << >>
    /\ Rejected(ws) => transport[ws].state = "closed"

\* A handshake has been rejected and closed while a verified user's
\* connection is registered.
C16_Witness ==
  \E a, b \in WS :
    /\ Rejected(a) /\ transport[a].state = "closed" /\ Gone(manager, a)
    /\ Registered(manager, b) /\ session[b].pc = "recv"

\* C17: a handshake rejected for a missing token and one rejected for an
\* invalid token are closed with different codes, both 4000 or above, and a
\* sweep that closes a stale connection uses a code that no rejection uses.
C17_DistinctCloseCodes ==
  [][\A ws \in WS :
       /\ SessionStart(ws, [reason |-> "missing", user |-> NoUser], TRUE) =>
            /\ transport'[ws].code >= 4000
            /\ transport'[ws].code # rejection_code("invalid")
       /\ SessionStart(ws, [reason |-> "invalid", user |-> NoUser], TRUE) =>
            /\ transport'[ws].code >= 4000
            /\ transport'[ws].code # rejection_code("missing")
       /\ (sweep.pc = "closing" /\ sweep.ws = ws /\ SweepClose(TRUE)) =>
            transport'[ws].code \notin {rejection_code(r) : r \in Rejections}
    ]_vars

\* The connection_established frames written to a connection.
Welcomes(ws) ==
  {i \in 1..Len(FramesOf(ws)) : FramesOf(ws)[i].type = "connection_established"}

\* C18: a connection whose handshake succeeded is registered before its
\* connection_established frame is written; once connect has returned, that
\* frame is the one frame written to it; and a connection_established frame
\* is only ever written to the connection whose handshake it answers, once.
C18_WelcomeAfterRegister ==
  \A ws \in WS :
    /\ session[ws].pc = "welcome" =>
         /\ Registered(manager, ws)
         /\ manager.connection_users[ws] = session[ws].user
         /\ FramesOf(ws) = << >>
    /\ session[ws].pc = "recv" => Welcomes(ws) = {1}
    /\ Cardinality(Welcomes(ws)) <= 1
    /\ Welcomes(ws) # {} =>
         /\ session[ws].user \in Users
         /\ session[ws].pc \in {"recv", "done"}

\* Two connections of one user have completed their handshakes: each has
\* received its own connection_established frame and nothing else.
C18_Witness ==
  \E a, b \in WS :
    /\ a # b
    /\ session[a].pc = "recv" /\ session[b].pc = "recv"
    /\ session[a].user = session[b].user
    /\ Registered(manager, a) /\ Registered(manager, b)
    /\ \A w \in {a, b} :
         FramesOf(w) = <<Frame("connection_established", 0, TRUE)>>

\* C19: a heartbeat frame received on a registered connection updates that
\* connection's last_heartbeat, is answered by exactly one heartbeat_ack
\* written to that connection and to no other, and leaves the connection
\* registered with its session waiting for the next frame.
C19_HeartbeatAcked ==
  [][\A ws \in WS :
       (Registered(manager, ws) /\ SessionRecv(ws, "heartbeat")) =>
         /\ Registered(manager', ws)
         /\ Age(manager', ws, now) = 0
         /\ Len(transport'[ws].frames) = Len(FramesOf(ws)) + 1
         /\ transport'[ws].frames[Len(transport'[ws].frames)].type = "heartbeat_ack"
         /\ \A other \in WS \ {ws} : transport'[other] = transport[other]
         /\ session'[ws].pc = "recv"
    ]_vars

\* C20: a well-formed frame of another type received on a registered
\* connection changes nothing: the session waits for the next frame, the
\* connection stays registered with the same last_heartbeat, and no frame
\* is written.
C20_OtherFrameIgnored ==
  [][\A ws \in WS :
       (Registered(manager, ws) /\ SessionRecv(ws, "other")) =>
         /\ session'[ws].pc = "recv"
         /\ manager' = manager
         /\ transport' = transport
    ]_vars

\* A step leaves the session of a connection where it was.
SessionSameAfter(ws) == session'[ws] = session[ws]

\* C21: a frame that is not an envelope, received on a registered
\* connection, ends that connection's session and unregisters it; every
\* other connection keeps its registration, metadata, transport and
\* session, and the caller and the sweeper are not disturbed.
C21_MalformedFrameEndsOneSession ==
  [][\A ws \in WS :
       (Registered(manager, ws) /\ SessionRecv(ws, "malformed")) =>
         /\ session'[ws].pc = "done"
         /\ Gone(manager', ws)
         /\ \A other \in WS \ {ws} : SameAfter(other) /\ SessionSameAfter(other)
         /\ call' = call /\ sweep' = sweep
    ]_vars

\* A session has ended on a frame it received and its connection is
\* unregistered, while another connection of the same user is still
\* registered and its session still receives.
C21_Witness ==
  \E a, b \in WS :
    /\ session[a].pc = "done" /\ Welcomes(a) # {} /\ Gone(manager, a)
    /\ session[b].pc = "recv" /\ Registered(manager, b)
    /\ session[a].user = session[b].user

\* C22: under every interleaving, once the session of a connection has
\* terminated, however it ended and whatever evicted the connection before,
\* the connection is in none of the three registry maps.
C22_TerminatedSessionUnregistered ==
  \A ws \in WS : session[ws].pc = "done" => Gone(manager, ws)

\* A session has terminated whose connection a sweep had already evicted
\* and closed.
C22_Witness ==
  \E ws \in WS :
    /\ session[ws].pc = "done" /\ Gone(manager, ws)
    /\ transport[ws].state = "closed" /\ transport[ws].code = 1000

\* C25: when the close() of a stale connection fails, that connection is
\* and stays unregistered, and the sweep goes on: the next connection it
\* collected is unregistered in the same step, and the connections after
\* it remain to be done.
C25_SweepContinuesAfterCloseFailure ==
  [][(sweep.pc = "closing" /\ SweepClose(FALSE)) =>
       /\ Gone(manager', sweep.ws)
       /\ sweep.stale # << >> =>
            /\ sweep'.pc = "closing"
            /\ sweep'.ws = Head(sweep.stale)
            /\ sweep'.stale = Tail(sweep.stale)
            /\ Gone(manager', Head(sweep.stale))
       /\ sweep.stale = << >> => sweep'.pc = "sleep"
    ]_vars

\* The close of the first stale connection failed while its session was
\* still receiving, and the sweep has unregistered the second one.
C25_Witness ==
  /\ sweep.pc = "closing"
  /\ Gone(manager, sweep.ws)
  /\ \E a \in WS \ {sweep.ws} :
       /\ session[a].pc = "recv"
       /\ transport[a].state = "closed" /\ transport[a].code = 0
       /\ Gone(manager, a)

\* C26: every write of a delivery is bounded: a delivery that is suspended
\* at the write to one connection can always go on, by the write returning
\* or by its failure (a timeout included), so that the delivery finishes,
\* the remaining targets are written and the blocked connection is evicted.
C26_WriteBounded ==
  (call.pc = "write" /\ call.api \in UserSendApis) => ENABLED CallStep

\* C27: in every state the registry can be in, a second disconnect of a
\* connection leaves the registry exactly as the first one left it, and
\* disconnect of a connection that is not registered leaves the registry
\* as it is.
C27_DisconnectIdempotent ==
  \A ws \in WS :
    LET once == disconnect(manager, ws)
    IN /\ disconnect(once, ws) = once
       /\ get_connected_users(disconnect(once, ws)) = get_connected_users(once)
       /\ Gone(manager, ws) => once = manager

\* A connection has been unregistered twice, by the sweep that evicted it
\* and by the finally block of its session, while another connection is
\* registered.
C27_Witness ==
  \E a, b \in WS :
    /\ session[a].pc = "done" /\ transport[a].code = 1000 /\ Gone(manager, a)
    /\ Registered(manager, b)

\* C28: in every state, connect called again for a connection that is
\* registered, with the same user, returns normally and leaves the user's
\* set, the recorded owner, connected_at and last_heartbeat as they were,
\* whether the transport lets accept() be repeated or not.
C28_ConnectIdempotent ==
  \A ws \in WS : (Registered(manager, ws) /\ session[ws].pc = "recv") =>
    \A accepted \in BOOLEAN :
      LET again == connect(manager, ws, manager.connection_users[ws], now, accepted)
      IN /\ again.result = "returned"
         /\ again.m = manager

\* C29: send_user_message for a user who has no entry in
\* active_connections returns at once without raising, writes no frame and
\* leaves the three registry maps as they were.
C29_UserSendNoConnections ==
  [][\A uid \in UserIds :
       (~DictHas(manager.active_connections, uid) /\ CallUser(uid)) =>
         /\ call'.pc = "done"
         /\ call'.result = "returned"
         /\ manager' = manager
         /\ transport' = transport
    ]_vars

\* send_user_message has returned for a user without connections while
\* another user is connected; nothing was written for the call.
C29_Witness ==
  /\ Done("send_user_message")
  /\ call.result = "returned"
  /\ ~DictHas(manager.active_connections, call.arg)
  /\ StartSet(call.arg) = {}
  /\ \E ws \in WS : Registered(manager, ws)
  /\ \A ws \in WS : ~Attempted(ws, call.mid)

\* The registered connections of a user, and what the summary must count.
ConnectionsOf(m, uid) ==
  {ws \in WS : Registered(m, ws) /\ m.connection_users[ws].id = uid}
ConnectedUsers(m) == {uid \in UserIds : ConnectionsOf(m, uid) # {}}
\* One entry per connected user, with the number of its connections.
SummaryCounts(m) ==
  LET users == get_connected_users(m)
  IN /\ Len(users) = Cardinality(ConnectedUsers(m))
     /\ Listed(m) = ConnectedUsers(m)
     /\ \A i \in 1..Len(users) :
          users[i].connection_count =
            Cardinality(ConnectionsOf(m, users[i].user_id))

\* C30 as stated: whenever no delivery holds the loop, get_connected_users
\* has exactly one entry per connected user, with the number of the user's
\* registered connections, the earliest connected_at and the latest
\* last_heartbeat among them.
C30_SummaryAggregates ==
  ~Running =>
    /\ SummaryCounts(manager)
    /\ \A uid \in ConnectedUsers(manager) :
         \A e \in connected_user_entries(manager, uid) :
           \A ws \in ConnectionsOf(manager, uid) :
             /\ e.connected_at <= manager.connection_metadata.data[ws].connected_at
             /\ e.last_heartbeat >= manager.connection_metadata.data[ws].last_heartbeat

\* C30 amended: whenever no delivery holds the loop, get_connected_users
\* has exactly one entry per connected user, with the number of the user's
\* registered connections and with the connected_at and the last_heartbeat
\* of one of them, both of the same connection.
C30_SummaryOfOneConnection ==
  ~Running =>
    /\ SummaryCounts(manager)
    /\ \A uid \in ConnectedUsers(manager) :
         /\ connected_user_entries(manager, uid) # {}
         /\ \A e \in connected_user_entries(manager, uid) :
              /\ e.connection_count = Cardinality(ConnectionsOf(manager, uid))
              /\ \E ws \in ConnectionsOf(manager, uid) :
                   /\ e.connected_at = manager.connection_metadata.data[ws].connected_at
                   /\ e.last_heartbeat = manager.connection_metadata.data[ws].last_heartbeat

\* A user has two connections that connected at different times and is
\* listed once, with a count of two.
C30_Witness ==
  /\ ~Running
  /\ \E a, b \in WS :
       /\ a # b
       /\ Registered(manager, a) /\ Registered(manager, b)
       /\ manager.connection_users[a].id = manager.connection_users[b].id
       /\ manager.connection_metadata.data[a].connected_at
            < manager.connection_metadata.data[b].connected_at
       /\ get_connected_users(manager) =
            <<[user_id |-> manager.connection_users[a].id, connection_count |-> 2]>>

\* C23: once shutdown has cancelled the periodic_cleanup task, the task has
\* ended, at whatever await the cancellation reached it; only then can the
\* shutdown complete.
C23_CancelEndsSweeper ==
  lifespan # "serving" => sweep.pc = "cancelled"

\* C24: while the service is not shutting down the monitor task is alive;
\* after a sweep that raised, the monitor leaves its backoff and sweeps
\* again; and unless it is cancelled it is again and again at the point
\* where the next sweep starts.
C24_MonitorSelfHealing ==
  /\ [](lifespan = "serving" => sweep.pc \in {"sleep", "closing", "backoff"})
  /\ (sweep.pc = "backoff")
       ~> (sweep.pc \in {"sleep", "closing"} \/ lifespan # "serving")
  /\ []<>(sweep.pc = "sleep" \/ lifespan # "serving")

\* A sweep has raised and the monitor is in its backoff, while a stale
\* connection waits for the next sweep.
C24_Witness ==
  /\ sweep.pc = "backoff"
  /\ lifespan = "serving"
  /\ \E ws \in WS :
       /\ Registered(manager, ws)
       /\ Age(manager, ws, now) > 2 * websocket_heartbeat_interval

\* The number of connections the manager holds.
RegisteredCount(m) == Cardinality({w \in WS : Registered(m, w)})

\* C31: once every connect and disconnect transition of the registry is
\* through its metrics hook (no handshake is between its registration and
\* its report), the value last reported to the websocket connection metric
\* is the number of registered connections.
C31_MetricTracksRegistry ==
  (\A w \in WS : session[w].pc # "welcome") => metric = RegisteredCount(manager)

\* A step appends a heartbeat_ack or a notification frame to the
\* connection's transport.
SentEnvelope(ws) ==
  /\ WroteTo(ws)
  /\ transport'[ws].frames[Len(transport'[ws].frames)].type # "connection_established"

\* The connection went through connect and is in none of the three dicts.
Evicted(ws) == WasRegistered(ws) /\ Gone(manager, ws)

\* C32, as claimed: once a connection has been unregistered, no later step
\* of a heartbeat, a delivery or a sweep adds it back to a dict of the
\* manager, a heartbeat handled for it acknowledges nothing, and no
\* delivery writes a notification to it.
C32_EvictedIsTerminal ==
  [][\A ws \in WS :
       Evicted(ws) =>
         /\ Gone(manager', ws)
         /\ CallHeartbeat(ws) =>
              /\ call'.pc = "done"
              /\ call'.result = "returned"
              /\ transport' = transport
         /\ call.api \in UserSendApis => ~SentEnvelope(ws)]_vars

\* C32, amended: once a connection has been unregistered no later step adds
\* it back to a dict of the manager, and a heartbeat handled for it changes
\* nothing and acknowledges nothing.  (A delivery that copied the user's
\* set before the connection was unregistered still attempts its write.)
C32_EvictedStaysEvicted ==
  [][\A ws \in WS :
       Evicted(ws) =>
         /\ Gone(manager', ws)
         /\ CallHeartbeat(ws) =>
              /\ call'.pc = "done"
              /\ call'.result = "returned"
              /\ transport' = transport]_vars

\* A heartbeat was handled for a connection that a sweep had evicted and
\* closed: nothing was written for it and it is still unregistered.
C32_Witness ==
  /\ Done("handle_heartbeat")
  /\ Evicted(call.arg)
  /\ transport[call.arg].code = 1000
  /\ ~Attempted(call.arg, call.mid)

\* No write of the current call has failed.
NoWriteFailed ==
  \A ws \in WS : \A i \in Attempts(ws, call.mid) : FramesOf(ws)[i].ok

\* C33: a send_role_message none of whose writes failed, whatever other
\* tasks connected or disconnected while it was suspended on a write, has
\* not raised when it finishes and has written to every connection that
\* was registered to a user of the role at its start and still is.
C33_RoleSendUndisturbed ==
  (Done("send_role_message") /\ RolesAgree /\ NoWriteFailed) =>
    /\ call.result = "returned"
    /\ \A ws \in WS :
         (AtStart(ws) /\ call.start[ws].role = call.role /\ Registered(manager, ws))
           => Attempted(ws, call.mid)

\* A step of a delivery through send_user_message ends a write.
DeliveryWrite == call.api \in UserSendApis /\ \E ok \in BOOLEAN : WriteDone(ok)

\* C34, as claimed: a delivery attempts no write on a connection that is
\* no longer registered, whatever disconnected or evicted it while the
\* delivery was suspended.
C34_NoWriteAfterUnregister ==
  [][DeliveryWrite => Registered(manager, call.ws)]_vars

\* C34, amended: a delivery writes to the connections of the copy it took
\* of the target user's set: every write is on a connection of the user
\* being delivered to, and a write attempted on a connection that has been
\* unregistered since the copy leaves the registry as it was.
C34_WritesFollowTheCopy ==
  [][DeliveryWrite =>
       /\ session[call.ws].user.id = call.uid
       /\ ~Registered(manager, call.ws) => manager' = manager]_vars

\* A delivery is at the write to a connection of its copy that was welcomed
\* and that a sweep has unregistered and closed since.
C34_Witness ==
  /\ call.pc = "write"
  /\ call.api = "send_user_message"
  /\ Gone(manager, call.ws)
  /\ transport[call.ws].code = 1000
  /\ \E i \in 1..Len(FramesOf(call.ws)) : FramesOf(call.ws)[i].type = "connection_established"

\* C35: a step of a sweep that unregisters a registered connection finds
\* it stale at that moment: a connection that was collected as stale and
\* whose heartbeat was handled while the sweep awaited the close of an
\* earlier one is not evicted by that sweep.
C35_EvictsOnlyStillStale ==
  [][\A ws \in WS :
       ( /\ sweep' # sweep
         /\ sweep'.pc = "closing"
         /\ sweep'.ws = ws
         /\ Registered(manager, ws) )
       => Age(manager, ws, now) > heartbeat_timeout]_vars

\* connect has called send_text for the connection's welcome frame: the
\* session is suspended in that call, or the call has ended.  (frames lists
\* the writes in the order their awaits ended; the frames of one websocket
\* go out in the order send_text was called for them.)
WelcomeIssued(ws) ==
  \/ session[ws].pc = "welcome"
  \/ \E i \in 1..Len(FramesOf(ws)) : FramesOf(ws)[i].type = "connection_established"

\* C36: on every connection the first send_text called is the one for
\* connection_established: whenever a broadcast, a role send or a targeted
\* send has called send_text for a connection, connect had called it for
\* the welcome frame before.
C36_WelcomeFirst ==
  \A ws \in WS :
    ( \/ call.pc = "write" /\ call.ws = ws
      \/ \E i \in 1..Len(FramesOf(ws)) : FramesOf(ws)[i].type # "connection_established" )
    => WelcomeIssued(ws)

\* A broadcast is at its write on a connection whose session is still
\* suspended in the send_text of its welcome frame.
C36_Witness ==
  /\ call.pc = "write"
  /\ call.api = "broadcast_message"
  /\ session[call.ws].pc = "welcome"
  /\ FramesOf(call.ws) = << >>

\* C37, as claimed: when send_role_message(role) returns, a connection
\* that was registered at its start has been written to exactly if the
\* user recorded for that connection has the role.
C37_RoleSendPerConnection ==
  (Done("send_role_message") /\ call.result = "returned") =>
    \A ws \in WS :
      AtStart(ws) => (Attempted(ws, call.mid) <=> call.start[ws].role = call.role)

\* C37, amended: send_role_message(role) selects users, not connections.
\* When it finishes, the connections a user id had at the start have all
\* been written to or none has; they have been written to only if the user
\* recorded for one of them has the role; and if the call returned they
\* have been written to when the users recorded for all of them have it.
C37_RoleSendPerUser ==
  Done("send_role_message") =>
    \A u \in StartIds :
      /\ \/ \A ws \in StartSet(u) : Attempted(ws, call.mid)
         \/ \A ws \in StartSet(u) : ~Attempted(ws, call.mid)
      /\ (\E ws \in StartSet(u) : Attempted(ws, call.mid))
           => \E w \in StartSet(u) : call.start[w].role = call.role
      /\ (call.result = "returned"
            /\ \A w \in StartSet(u) : call.start[w].role = call.role)
           => \A ws \in StartSet(u) : Attempted(ws, call.mid)

\* One user id holds two connections recorded with different roles, and a
\* send to the role of one of them has written to both.
C37_Witness ==
  /\ Done("send_role_message")
  /\ \E w1, w2 \in WS :
       /\ AtStart(w1) /\ AtStart(w2)
       /\ call.start[w1].id = call.start[w2].id
       /\ call.start[w1].role = call.role
       /\ call.start[w2].role # call.role
       /\ Attempted(w1, call.mid) /\ Attempted(w2, call.mid)

\* C38: the broker puts a message back at most retry_attempts times: a
\* message whose handler fails with a retryable error on every delivery is
\* then nacked without requeue.
C38_RequeueBounded ==
  \A m \in Msgs : queue[m].requeues <= retry_attempts

====
